---- MODULE Spec2Model ----
(***************************************************************************)
(* BlockX: a grid is laid over one uploaded image, cells are selected by   *)
(* clicking, and processAndDownload slices the selected cells into named   *)
(* blobs, packs them into one archive and hands it to the save sink.       *)
(*                                                                         *)
(* Conventions of the model                                                *)
(*   - a JavaScript string is a sequence of tokens; the characters of a    *)
(*     file name are one-character tokens;                                 *)
(*   - a JavaScript number that need not be an integer is an exact         *)
(*     fraction <<n, d>> with d > 0, in lowest terms;                      *)
(*   - a JavaScript Set is the sequence of its elements in insertion       *)
(*     order, without duplicates (the order a Set iterates in).            *)
(***************************************************************************)
EXTENDS Integers, Sequences, FiniteSets, TLC

VARIABLES
    imageInfo,        \* App state: the loaded image, or NoImage
    settings,         \* App state: GridSettings
    selectedIndices,  \* App state: Set<number>
    processingState,  \* App state: {isProcessing, progress, error}
    hasMoved,         \* GridPreview state: the pointer moved since mouse-down
    drag,             \* GridPreview state: isDragging, dragStart, initialOffset
    pointer,          \* the mouse: where it is, the button held, where the left
                      \* button last went down and whether it was dragged since
    timers,           \* pending setTimeout callbacks of handleDownload
    devicePixelRatio, \* window.devicePixelRatio
    pc,               \* where the export job stands
    args,             \* the arguments processAndDownload was called with
    loc,              \* its local variables
    zip,              \* the JSZip instance: entries in insertion order
    progressLog,      \* every value passed to onProgress, in call order
    saved,            \* every call of the save sink: content, zipName, and the
                      \* number of onProgress calls the job had made by then
    thrown,           \* processAndDownload re-threw to its caller
    ticks,            \* archive progress callbacks: how many, and the last percent
    background,       \* earlier calls of processAndDownload that are still in flight
    previous          \* history: the last completed job, where it is recorded

vars == <<imageInfo, settings, selectedIndices, processingState, hasMoved, drag,
          pointer, timers, devicePixelRatio, pc, args, loc, zip, progressLog, saved, thrown, ticks,
          background, previous>>

uiVars == <<imageInfo, settings, selectedIndices, hasMoved, drag, pointer>>
jobVars == <<pc, args, loc, zip, progressLog, saved, thrown, ticks, background, previous>>

(***************************************************************************)
(* Bounds of the model                                                     *)
(***************************************************************************)
MaxCells == 4         \* cells of the grids the user sets up: rows * cols
MaxSel == 2           \* clicks add a cell while fewer than this are selected
MaxNull == 1          \* encodes of one job that yield null
MaxTicks == 1         \* progress callbacks of one archive generation
PercentGrid == 2      \* the archive reports percent in steps of 100 / PercentGrid
MaxSide == 3          \* natural width and height of a directly supplied image
MaxPad == 1           \* padding per edge of directly supplied settings
MaxNameLen == 3       \* length of a directly supplied original file name
MaxPan == 1           \* a drag moves the image while the offsets stay within
                      \* this many viewports of the centre
MaxJobs == 2          \* a download starts while fewer jobs are in the background or
                      \* await their timer

(***************************************************************************)
(* Exact fractions                                                         *)
(***************************************************************************)
RECURSIVE Gcd(_, _)
Gcd(a, b) == IF b = 0 THEN a ELSE Gcd(b, a % b)

Abs(x) == IF x < 0 THEN -x ELSE x

\* n / d in lowest terms, d > 0
Frac(n, d) ==
    LET s == IF d < 0 THEN -1 ELSE 1
        g == Gcd(Abs(n), Abs(d))
    IN  <<(s * n) \div g, (s * d) \div g>>

Whole(n) == <<n, 1>>
FMul(a, b) == Frac(a[1] * b[1], a[2] * b[2])
FDiv(a, b) == Frac(a[1] * b[2], a[2] * b[1])
FAdd(a, b) == Frac(a[1] * b[2] + b[1] * a[2], a[2] * b[2])
FSub(a, b) == Frac(a[1] * b[2] - b[1] * a[2], a[2] * b[2])
FLeq(a, b) == a[1] * b[2] <= b[1] * a[2]
FLess(a, b) == a[1] * b[2] < b[1] * a[2]
FMin(a, b) == IF FLeq(a, b) THEN a ELSE b
FMax(a, b) == IF FLeq(a, b) THEN b ELSE a

\* Math.floor
MathFloor(a) == a[1] \div a[2]

RECURSIVE TwoTo(_)
TwoTo(k) == IF k = 0 THEN 1 ELSE 2 * TwoTo(k - 1)

\* Math.round: the nearest integer, halves towards +infinity
MathRound(a) == (2 * a[1] + a[2]) \div (2 * a[2])

\* Math.max on integers
MathMax(x, y) == IF x >= y THEN x ELSE y

\* Math.min on integers
MathMin(x, y) == IF x <= y THEN x ELSE y

(***************************************************************************)
(* IEEE 754 doubles, for the one expression whose rounding shows in the    *)
(* result: (processedCount / slicesToExport.length) * 50. A 53-bit         *)
(* mantissa is five digits of 13 bits, the most significant first and      *)
(* equal to 1; a positive double is [m, e] and its value is m * 2^e.       *)
(***************************************************************************)
Radix == TwoTo(13)

\* the value of the two leading digits
Leading(digits) == digits[1] * Radix + digits[2]

\* the number of bits of a non-negative integer
RECURSIVE BitLength(_)
BitLength(k) == IF k = 0 THEN 0 ELSE 1 + BitLength(k \div 2)

\* digits plus one; the leading digit is below Radix - 1 and takes the carry
Increment(digits) ==
    LET last == CHOOSE i \in DOMAIN digits :
                    /\ digits[i] # Radix - 1
                    /\ \A j \in (i + 1)..Len(digits) : digits[j] = Radix - 1
    IN  [j \in DOMAIN digits |-> IF j < last THEN digits[j]
                                 ELSE IF j = last THEN digits[j] + 1 ELSE 0]

\* the double nearest to digits * 2^e, ties to the even mantissa: digits has
\* 53 + drop bits, drop <= 13, its leading digit may exceed Radix, and more
\* tells whether the exact value has non-zero bits below digits
RoundToDouble(digits, drop, more, e) ==
    LET len == Len(digits)
        shifted == [j \in 1..len |->
                       ((IF j = 1 THEN 0 ELSE digits[j - 1] % TwoTo(drop)) * TwoTo(13 - drop))
                       + (digits[j] \div TwoTo(drop))]
        dropped == digits[len] % TwoTo(drop)
        half == TwoTo(drop - 1)
        up == /\ drop > 0
              /\ \/ dropped > half
                 \/ dropped = half /\ (more \/ shifted[len] % 2 = 1)
        rounded == IF up THEN Increment(shifted) ELSE shifted
        m == SubSeq(rounded, len - 4, len)
    IN  IF m[1] = 2 THEN [m |-> <<1, 0, 0, 0, 0>>, e |-> e + drop + 1]
                    ELSE [m |-> m, e |-> e + drop]

\* the first count digits of r / n after the point, for 0 <= r < n, followed by
\* 1 if more non-zero digits follow and by 0 if not
RECURSIVE DivisionDigits(_, _, _)
DivisionDigits(r, n, count) ==
    IF count = 0 THEN <<IF r = 0 THEN 0 ELSE 1>>
    ELSE <<(r * Radix) \div n>> \o DivisionDigits((r * Radix) % n, n, count - 1)

\* the least s with p * 2^s >= n
RECURSIVE ShiftUp(_, _)
ShiftUp(p, n) == IF p >= n THEN 0 ELSE 1 + ShiftUp(2 * p, n)

\* p / n for integers 1 <= p <= n
DoubleDivide(p, n) ==
    LET s == ShiftUp(p, n)
        quotient == DivisionDigits(p * TwoTo(s) - n, n, 5)
    IN  RoundToDouble(<<1>> \o SubSeq(quotient, 1, 5), 13, quotient[6] = 1, -s - 65)

\* digits times an integer 1 <= k < Radix; the leading digit keeps the carry
TimesDigits(digits, k) ==
    LET len == Len(digits)
        \* the carry out of the i lowest digits
        carry[i \in 0..len] ==
            IF i = 0 THEN 0 ELSE (digits[len - i + 1] * k + carry[i - 1]) \div Radix
    IN  [j \in 1..len |-> IF j = 1 THEN digits[1] * k + carry[len - 1]
                          ELSE (digits[j] * k + carry[len - j]) % Radix]

\* x * k for an integer 1 <= k < Radix
DoubleTimes(x, k) ==
    LET product == TimesDigits(x.m, k)
    IN  RoundToDouble(product, BitLength(product[1]) - 1, FALSE, x.e)

\* Math.round on a double below Radix: the nearest integer, halves towards
\* +infinity
MathRoundDouble(x) ==
    IF -x.e > 53 THEN 0
    ELSE (Leading(x.m) \div TwoTo(-x.e - 39)) + ((Leading(x.m) \div TwoTo(-x.e - 40)) % 2)

(***************************************************************************)
(* Strings                                                                 *)
(***************************************************************************)
Range(s) == {s[i] : i \in DOMAIN s}

\* String.prototype.lastIndexOf: the last 0-based position of c, or -1
LastIndexOf(s, c) ==
    IF \E i \in DOMAIN s : s[i] = c
    THEN (CHOOSE i \in DOMAIN s : s[i] = c /\ \A j \in DOMAIN s : s[j] = c => j <= i) - 1
    ELSE -1

\* String.prototype.substring: both ends clamped to 0..length, swapped if start > end
Substring(s, start, end) ==
    LET a == MathMin(MathMax(start, 0), Len(s))
        b == MathMin(MathMax(end, 0), Len(s))
    IN  SubSeq(s, MathMin(a, b) + 1, MathMax(a, b))

\* a || b on strings: the empty string is falsy
OrElse(a, b) == IF a # <<>> THEN a ELSE b

Digit(n) == CASE n = 0 -> "0" [] n = 1 -> "1" [] n = 2 -> "2" [] n = 3 -> "3"
              [] n = 4 -> "4" [] n = 5 -> "5" [] n = 6 -> "6" [] n = 7 -> "7"
              [] n = 8 -> "8" [] n = 9 -> "9"

\* a non-negative integer inside a template literal: its decimal digits
RECURSIVE NumberToString(_)
NumberToString(n) ==
    IF n < 10 THEN <<Digit(n)>> ELSE NumberToString(n \div 10) \o <<Digit(n % 10)>>

(***************************************************************************)
(* Set<number>                                                             *)
(***************************************************************************)
SetHas(s, x) == x \in Range(s)
SetAdd(s, x) == IF SetHas(s, x) THEN s ELSE Append(s, x)
SetDelete(s, x) == SelectSeq(s, LAMBDA y : y # x)

\* Array.from(set): the elements in the order the Set iterates them
ArrayFromSet(s) == s

\* a faulty variant, for comparison: the indices are counted from 1
ArrayFromLength_OneBased(n) == [i \in 1..n |-> i]

\* Array.from({ length: n }, (_, i) => i)
ArrayFromLength(n) == [i \in 1..n |-> i - 1]

(***************************************************************************)
(* Values                                                                  *)
(***************************************************************************)
NoImage == [none |-> TRUE]
NoError == "null"
Formats == {"png", "jpg", "webp"}
CropModes == {"original", "square"}

\* constants.ts: the fields processAndDownload reads and DEFAULT_SETTINGS does not
\* list (padding, filePrefix) are carried as 0 and the empty string
DEFAULT_SETTINGS ==
    [rows |-> 3, cols |-> 3, format |-> "png", cropMode |-> "original",
     squareFit |-> "center",
     scaleX |-> Whole(1), scaleY |-> Whole(1), offsetX |-> Whole(0), offsetY |-> Whole(0),
     paddingTop |-> 0, paddingRight |-> 0, paddingBottom |-> 0, paddingLeft |-> 0,
     filePrefix |-> <<>>]

IdleProcessing == [isProcessing |-> FALSE, progress |-> 0, error |-> NoError]

\* { ...prev, ...patch }
Spread(prev, patch) ==
    [f \in DOMAIN prev |-> IF f \in DOMAIN patch THEN patch[f] ELSE prev[f]]

NoLocals == [state |-> "none"]
NoArgs == [state |-> "none"]
NoTicks == [count |-> 0, last |-> Whole(0)]

\* MouseEvent.button is 0 for the left and 2 for the right button
Buttons == {0, 2}
NoButton == -1

\* GridPreview's interaction state as useState initialises it
NoDrag ==
    [isDragging |-> FALSE, dragStart |-> [x |-> 0, y |-> 0],
     initialOffset |-> [x |-> Whole(0), y |-> Whole(0)]]

\* the mouse before any event: no button is held
AtRest ==
    [at |-> [x |-> 0, y |-> 0], button |-> NoButton, down |-> [x |-> 0, y |-> 0],
     dragged |-> FALSE]

\* values of the history variable: jobs are not recorded; none has completed yet
NotRecorded == [state |-> "off"]
NoPrevious == [state |-> "none"]

(***************************************************************************)
(* getViewportDimensions                                                   *)
(***************************************************************************)
\* a faulty variant, for comparison: the square takes the larger side
getViewportDimensions_Larger(imgWidth, imgHeight, cropMode) ==
    IF cropMode = "square"
    THEN LET maxDim == MathMax(imgWidth, imgHeight)
         IN  [width |-> maxDim, height |-> maxDim]
    ELSE [width |-> imgWidth, height |-> imgHeight]

getViewportDimensions(imgWidth, imgHeight, cropMode) ==
    IF cropMode = "square"
    THEN LET minDim == MathMin(imgWidth, imgHeight)
         IN  [width |-> minDim, height |-> minDim]
    ELSE [width |-> imgWidth, height |-> imgHeight]

(***************************************************************************)
(* processAndDownload: the values it computes                              *)
(***************************************************************************)
\* Math.min(window.devicePixelRatio || 1, 2)
PixelRatio(dpr) == FMin(IF dpr[1] = 0 THEN Whole(1) ELSE dpr, Whole(2))

\* a faulty variant, for comparison: the image is not centred before the pan
MasterDraw_TopLeft(img, viewport, s, pixelRatio) ==
    LET canvasWidth == FMul(Whole(viewport.width), pixelRatio)
        canvasHeight == FMul(Whole(viewport.height), pixelRatio)
    IN  [canvasWidth |-> canvasWidth, canvasHeight |-> canvasHeight,
         drawWidth |-> FMul(FMul(Whole(img.width), s.scaleX), pixelRatio),
         drawHeight |-> FMul(FMul(Whole(img.height), s.scaleY), pixelRatio),
         finalX |-> FMul(s.offsetX, canvasWidth),
         finalY |-> FMul(s.offsetY, canvasHeight)]

\* the rectangle the image is drawn in on the master canvas
MasterDraw(img, viewport, s, pixelRatio) ==
    LET canvasWidth == FMul(Whole(viewport.width), pixelRatio)
        canvasHeight == FMul(Whole(viewport.height), pixelRatio)
        drawWidth == FMul(FMul(Whole(img.width), s.scaleX), pixelRatio)
        drawHeight == FMul(FMul(Whole(img.height), s.scaleY), pixelRatio)
        baseX == FDiv(FSub(canvasWidth, drawWidth), Whole(2))
        baseY == FDiv(FSub(canvasHeight, drawHeight), Whole(2))
    IN  [canvasWidth |-> canvasWidth, canvasHeight |-> canvasHeight,
         drawWidth |-> drawWidth, drawHeight |-> drawHeight,
         finalX |-> FAdd(baseX, FMul(s.offsetX, canvasWidth)),
         finalY |-> FAdd(baseY, FMul(s.offsetY, canvasHeight))]

\* selectedIndices.size > 0 ? Array.from(selectedIndices) : Array.from({length}, i => i)
SlicesToExport(sel, rows, cols) ==
    IF Len(sel) > 0 THEN ArrayFromSet(sel) ELSE ArrayFromLength(rows * cols)

\* a faulty variant, for comparison: the size is not clamped to 1
OutputSize_Unclamped(slice, padBefore, padAfter, pixelRatio) ==
    MathFloor(FMul(FSub(FSub(slice, Whole(padBefore)), Whole(padAfter)), pixelRatio))

\* Math.max(1, Math.floor((slice - padBefore - padAfter) * pixelRatio))
OutputSize(slice, padBefore, padAfter, pixelRatio) ==
    MathMax(1, MathFloor(FMul(FSub(FSub(slice, Whole(padBefore)), Whole(padAfter)),
                              pixelRatio)))

\* Math.floor(index / cols)
CellRow(index, cols) == index \div cols

\* a faulty variant, for comparison: the column is taken modulo cols + 1
CellCol_Wide(index, cols) == index % (cols + 1)

\* index % cols
CellCol(index, cols) == index % cols

\* the source rectangle of one cell on the master canvas
SourceRect(index, s, sliceWidth, sliceHeight, pixelRatio) ==
    LET row == CellRow(index, s.cols)
        col == CellCol(index, s.cols)
    IN  [srcX |-> FMul(FAdd(FMul(Whole(col), sliceWidth), Whole(s.paddingLeft)), pixelRatio),
         srcY |-> FMul(FAdd(FMul(Whole(row), sliceHeight), Whole(s.paddingTop)), pixelRatio),
         srcWidth |-> FMul(FSub(FSub(sliceWidth, Whole(s.paddingLeft)),
                                Whole(s.paddingRight)), pixelRatio),
         srcHeight |-> FMul(FSub(FSub(sliceHeight, Whole(s.paddingTop)),
                                 Whole(s.paddingBottom)), pixelRatio)]

\* format === 'jpg' ? 'image/jpeg' : `image/${format}`
MimeType(format) ==
    IF format = "jpg" THEN "image/jpeg"
    ELSE IF format = "png" THEN "image/png" ELSE "image/webp"

\* a faulty variant, for comparison: jpg tiles get the extension of their mime type
Ext_Jpeg(format) == IF format = "jpg" THEN "jpeg" ELSE format

\* format === 'jpg' ? 'jpg' : format
Ext(format) == IF format = "jpg" THEN "jpg" ELSE format

\* filePrefix || originalName.substring(0, originalName.lastIndexOf('.')) || 'sliced'
BaseName(filePrefix, originalName) ==
    OrElse(OrElse(filePrefix,
                  Substring(originalName, 0, LastIndexOf(originalName, "."))),
           <<"sliced">>)

\* a faulty variant, for comparison: the row and the column are numbered from 0
Filename_ZeroBased(baseName, row, col, ext) ==
    baseName \o <<"_">> \o NumberToString(row) \o <<"_">>
             \o NumberToString(col) \o <<".">> \o <<ext>>

\* `${baseName}_${row + 1}_${col + 1}.${ext}`
Filename(baseName, row, col, ext) ==
    baseName \o <<"_">> \o NumberToString(row + 1) \o <<"_">>
             \o NumberToString(col + 1) \o <<".">> \o <<ext>>

\* the base name computed again for the archive
BaseNameForZip(filePrefix, originalName) ==
    OrElse(OrElse(filePrefix,
                  Substring(originalName, 0, LastIndexOf(originalName, "."))),
           <<"sliced">>)

\* `${baseNameForZip}_grid.zip`
ZipName(baseNameForZip) == baseNameForZip \o <<"_grid.zip">>

\* Math.round((processedCount / slicesToExport.length) * 50)
SliceProgress(processedCount, length) ==
    MathRoundDouble(DoubleTimes(DoubleDivide(processedCount, length), 50))

\* 60 + Math.round(metadata.percent * 0.4)
ArchiveProgressValue(percent) == 60 + MathRound(FMul(percent, Frac(4, 10)))

\* zip.file(name, blob): a name the archive holds already keeps its place and
\* gets the new content
ZipFile(z, name, blob) ==
    IF \E i \in DOMAIN z : z[i].name = name
    THEN [i \in DOMAIN z |-> IF z[i].name = name THEN [name |-> name, blob |-> blob]
                                                 ELSE z[i]]
    ELSE Append(z, [name |-> name, blob |-> blob])

(***************************************************************************)
(* App and GridPreview: the handlers of the selection and the settings     *)
(***************************************************************************)
\* App.handleImageSelected; suggestion is what suggestGridDimensions returned
handleImageSelected(info, suggestion) ==
    /\ imageInfo = NoImage
    /\ imageInfo' = info
    /\ settings' = Spread(DEFAULT_SETTINGS,
                          [rows |-> suggestion.rows, cols |-> suggestion.cols,
                           scaleX |-> Whole(1), scaleY |-> Whole(1),
                           offsetX |-> Whole(0), offsetY |-> Whole(0)])
    /\ selectedIndices' = <<>>
    /\ UNCHANGED <<processingState, hasMoved, drag, pointer, timers, devicePixelRatio>>
    /\ UNCHANGED jobVars

\* App.handleReset; GridPreview is unmounted and its state discarded
handleReset ==
    /\ imageInfo # NoImage
    /\ imageInfo' = NoImage
    /\ selectedIndices' = <<>>
    /\ processingState' = IdleProcessing
    /\ hasMoved' = FALSE
    /\ drag' = NoDrag
    /\ UNCHANGED <<settings, pointer, timers, devicePixelRatio>>
    /\ UNCHANGED jobVars

\* the selection handleGridClick passes to onSelectionChange, or leaves as it is
GridClick(index) ==
    IF hasMoved THEN selectedIndices
    ELSE IF SetHas(selectedIndices, index)
         THEN SetDelete(selectedIndices, index)
         ELSE SetAdd(selectedIndices, index)

\* GridPreview.handleGridClick, the onMouseUp of cell index
handleGridClick(index) ==
    /\ imageInfo # NoImage
    /\ index \in 0..(settings.rows * settings.cols - 1)
    /\ SetHas(selectedIndices, index) \/ Len(selectedIndices) < MaxSel
    /\ selectedIndices' = GridClick(index)
    /\ UNCHANGED <<imageInfo, settings, processingState, hasMoved, drag, pointer, timers,
                   devicePixelRatio>>
    /\ UNCHANGED jobVars

\* App.handleSelectAll
handleSelectAll ==
    /\ imageInfo # NoImage
    /\ selectedIndices' = ArrayFromLength(settings.rows * settings.cols)
    /\ UNCHANGED <<imageInfo, settings, processingState, hasMoved, drag, pointer, timers,
                   devicePixelRatio>>
    /\ UNCHANGED jobVars

\* App.handleSelectNone
handleSelectNone ==
    /\ imageInfo # NoImage
    /\ selectedIndices' = <<>>
    /\ UNCHANGED <<imageInfo, settings, processingState, hasMoved, drag, pointer, timers,
                   devicePixelRatio>>
    /\ UNCHANGED jobVars

\* App.handleSettingsChange
handleSettingsChange(newSettings) ==
    /\ imageInfo # NoImage
    /\ settings' = Spread(settings, newSettings)
    /\ UNCHANGED <<imageInfo, selectedIndices, processingState, hasMoved, drag, pointer, timers,
                   devicePixelRatio>>
    /\ UNCHANGED jobVars

\* Sidebar.handleInputChange
handleInputChange(field, value) ==
    /\ imageInfo # NoImage
    /\ settings' =
          IF field = "cropMode"
          THEN Spread(settings, [cropMode |-> value,
                                 scaleX |-> Whole(1), scaleY |-> Whole(1),
                                 offsetX |-> Whole(0), offsetY |-> Whole(0)])
          ELSE Spread(settings, [key \in {field} |-> value])
    /\ UNCHANGED <<imageInfo, selectedIndices, processingState, hasMoved, drag, pointer, timers,
                   devicePixelRatio>>
    /\ UNCHANGED jobVars

(***************************************************************************)
(* The mouse on GridPreview. The viewport wrapper, which carries           *)
(* onMouseDown and onMouseMove, is RectWidth x RectHeight and lies right   *)
(* of x = 0; a grid of one row and two columns splits it at x = 3. The     *)
(* rest of GridPreview's container area lies at x = 0.                     *)
(***************************************************************************)
RectWidth == 4
RectHeight == 4
PointerXs == {0, 1, 3, 4}
PointerYs == {0, 3}
Positions == [x : PointerXs, y : PointerYs]
NoCell == -1

\* the pointer is over the viewport wrapper
OnWrapper(p) == p.x > 0

\* the cell of the grid overlay under the pointer
CellAt(p) == IF ~OnWrapper(p) THEN NoCell ELSE IF p.x <= 3 THEN 0 ELSE 1

\* Math.abs(dx) > 2 || Math.abs(dy) > 2
Beyond(dx, dy) == Abs(dx) > 2 \/ Abs(dy) > 2

\* GridPreview.handleMouseDown
handleMouseDown(button, clientX, clientY) ==
    IF button # 0
    THEN UNCHANGED <<hasMoved, drag>>
    ELSE /\ hasMoved' = FALSE
         /\ drag' = [isDragging |-> TRUE,
                     dragStart |-> [x |-> clientX, y |-> clientY],
                     initialOffset |-> [x |-> settings.offsetX, y |-> settings.offsetY]]

\* the offsets handleMouseMove passes to onSettingsChange
Panned(clientX, clientY) ==
    LET dx == clientX - drag.dragStart.x
        dy == clientY - drag.dragStart.y
        percentX == Frac(dx, RectWidth)
        percentY == Frac(dy, RectHeight)
    IN  [offsetX |-> FAdd(drag.initialOffset.x, percentX),
         offsetY |-> FAdd(drag.initialOffset.y, percentY)]

\* GridPreview.handleMouseMove, with App.handleSettingsChange
handleMouseMove(clientX, clientY) ==
    IF ~drag.isDragging
    THEN UNCHANGED <<hasMoved, settings>>
    ELSE /\ hasMoved' = (hasMoved \/ Beyond(clientX - drag.dragStart.x,
                                             clientY - drag.dragStart.y))
         /\ settings' = Spread(settings, Panned(clientX, clientY))

\* GridPreview.handleMouseUp, the listener on window while isDragging
handleMouseUp ==
    drag' = IF drag.isDragging THEN [drag EXCEPT !.isDragging = FALSE] ELSE drag

\* a button goes down while the pointer is in GridPreview; on the wrapper the
\* event reaches handleMouseDown
MouseDown(button) ==
    /\ imageInfo # NoImage
    /\ pointer.button = NoButton
    /\ pointer' = IF button = 0
                  THEN [pointer EXCEPT !.button = button, !.down = pointer.at,
                                       !.dragged = FALSE]
                  ELSE [pointer EXCEPT !.button = button]
    /\ IF OnWrapper(pointer.at)
       THEN handleMouseDown(button, pointer.at.x, pointer.at.y)
       ELSE UNCHANGED <<hasMoved, drag>>
    /\ UNCHANGED <<imageInfo, settings, selectedIndices, processingState, timers,
                   devicePixelRatio>>
    /\ UNCHANGED jobVars

\* the offsets stay within MaxPan viewports of the centre
InReach(s) ==
    /\ FLeq(Whole(-MaxPan), s.offsetX) /\ FLeq(s.offsetX, Whole(MaxPan))
    /\ FLeq(Whole(-MaxPan), s.offsetY) /\ FLeq(s.offsetY, Whole(MaxPan))

\* the pointer moves to p; over the wrapper the event reaches handleMouseMove
MouseMove(p) ==
    /\ imageInfo # NoImage
    /\ p # pointer.at
    /\ pointer' = [pointer EXCEPT
                      !.at = p,
                      !.dragged = IF pointer.button = 0
                                  THEN @ \/ Beyond(p.x - pointer.down.x,
                                                   p.y - pointer.down.y)
                                  ELSE @]
    /\ IF OnWrapper(p)
       THEN handleMouseMove(p.x, p.y)
       ELSE UNCHANGED <<hasMoved, settings>>
    /\ InReach(settings')
    /\ UNCHANGED <<imageInfo, selectedIndices, processingState, drag, timers,
                   devicePixelRatio>>
    /\ UNCHANGED jobVars

\* the button held is released: over a cell the event reaches the onMouseUp of
\* that cell, and then the listener on window
MouseUp ==
    /\ imageInfo # NoImage
    /\ pointer.button # NoButton
    /\ pointer' = [pointer EXCEPT !.button = NoButton]
    /\ LET index == CellAt(pointer.at)
       IN  IF index = NoCell
           THEN UNCHANGED selectedIndices
           ELSE /\ SetHas(selectedIndices, index) \/ Len(selectedIndices) < MaxSel
                /\ selectedIndices' = GridClick(index)
    /\ handleMouseUp
    /\ UNCHANGED <<imageInfo, settings, processingState, hasMoved, timers,
                   devicePixelRatio>>
    /\ UNCHANGED jobVars

\* Number(x.toFixed(2)): the nearest number of two decimals
ToFixed2(x) == Frac(MathRound(FMul(x, Whole(100))), 100)

\* a faulty variant, for comparison: the scale has no lower limit
ClampScale_NoFloor(x) == FMin(Whole(3), x)

\* Math.min(3, Math.max(0.5, x))
ClampScale(x) == FMin(Whole(3), FMax(Frac(1, 2), x))

\* GridPreview.handleWheel: both scales move by 0.05
handleWheel(zoomIn) ==
    LET step == Frac(5, 100)
        delta == IF zoomIn THEN step ELSE FSub(Whole(0), step)
        newScaleX == ToFixed2(ClampScale(FAdd(settings.scaleX, delta)))
        newScaleY == ToFixed2(ClampScale(FAdd(settings.scaleY, delta)))
    IN  handleSettingsChange([scaleX |-> newScaleX, scaleY |-> newScaleY])

\* Sidebar.handleScaleStep, the - and + buttons of one axis
handleScaleStep(axis, amount) ==
    LET field == IF axis = "X" THEN "scaleX" ELSE "scaleY"
        current == settings[field]
        newVal == ClampScale(FAdd(current, amount))
    IN  handleInputChange(field, ToFixed2(newVal))

\* the values of a range input with min 0.5, max 3 and step 0.01, among which
\* the user picks
SliderValues == {Frac(k, 100) : k \in {50, 51, 100, 299, 300}}

\* Sidebar.resetTransforms
resetTransforms ==
    /\ imageInfo # NoImage
    /\ settings' = Spread(settings, [scaleX |-> Whole(1), scaleY |-> Whole(1),
                                     offsetX |-> Whole(0), offsetY |-> Whole(0)])
    /\ UNCHANGED <<imageInfo, selectedIndices, processingState, hasMoved, drag, pointer, timers,
                   devicePixelRatio>>
    /\ UNCHANGED jobVars

(***************************************************************************)
(* Sidebar.handleDownload and processAndDownload, one action per stretch   *)
(* of code between two awaits                                              *)
(***************************************************************************)
FailureMessage == "download failed, please retry"

\* a faulty variant, for comparison: the catch of processAndDownload swallows the error
DownloadFailed_Swallowed(step) ==
    /\ pc' = "failed"
    /\ thrown' = "none"
    /\ processingState' = processingState
    /\ timers' = timers + 1

\* the catch of processAndDownload re-throws; the catch and finally of handleDownload
DownloadFailed(step) ==
    /\ pc' = "failed"
    /\ thrown' = step
    /\ processingState' = [processingState EXCEPT !.error = FailureMessage]
    /\ timers' = timers + 1

\* onProgress: (p) => setProcessingState(prev => ({ ...prev, progress: p }))
OnProgress(ps, values) ==
    IF values = <<>> THEN ps ELSE [ps EXCEPT !.progress = values[Len(values)]]

\* processAndDownload called on (image, s, sel), up to its await of loadImage
Call(image, s, sel) ==
    /\ pc' = "loading"
    /\ args' = [imageInfo |-> image, settings |-> s, selectedIndices |-> sel]
    /\ loc' = NoLocals
    /\ zip' = <<>>
    /\ progressLog' = <<>>
    /\ saved' = <<>>
    /\ thrown' = "none"
    /\ ticks' = NoTicks

\* the latest call of processAndDownload has neither returned nor thrown
Running == pc \in {"loading", "encoding", "archiving"}

\* the download button: handleDownload up to the first await; a call still in
\* flight runs on in the background
handleDownload ==
    /\ imageInfo # NoImage
    /\ ~processingState.isProcessing
    /\ processingState' = [isProcessing |-> TRUE, progress |-> 0, error |-> NoError]
    /\ Call(imageInfo, settings, selectedIndices)
    /\ background' = IF Running THEN background + 1 ELSE background
    /\ UNCHANGED <<imageInfo, settings, selectedIndices, hasMoved, drag, pointer, timers,
                   devicePixelRatio, previous>>

\* loadImage rejects
LoadRejected ==
    /\ pc = "loading"
    /\ DownloadFailed("load")
    /\ UNCHANGED <<imageInfo, settings, selectedIndices, hasMoved, drag, pointer, devicePixelRatio,
                   args, loc, zip, progressLog, saved, ticks, background, previous>>

\* the locals processAndDownload has set when it reaches the slicing loop
Locals(a, dpr) ==
    LET s == a.settings
        img == [width |-> a.imageInfo.width, height |-> a.imageInfo.height]
        pixelRatio == PixelRatio(dpr)
        viewport == getViewportDimensions(img.width, img.height, s.cropMode)
        sliceWidth == Frac(viewport.width, s.cols)
        sliceHeight == Frac(viewport.height, s.rows)
    IN  [pixelRatio |-> pixelRatio,
         viewport |-> viewport,
         master |-> MasterDraw(img, viewport, s, pixelRatio),
         sliceWidth |-> sliceWidth,
         sliceHeight |-> sliceHeight,
         totalSlices |-> s.rows * s.cols,
         slicesToExport |-> SlicesToExport(a.selectedIndices, s.rows, s.cols),
         processedCount |-> 0,
         outputWidth |-> OutputSize(sliceWidth, s.paddingLeft, s.paddingRight, pixelRatio),
         outputHeight |-> OutputSize(sliceHeight, s.paddingTop, s.paddingBottom, pixelRatio),
         it |-> 0,
         src |-> [none |-> TRUE],
         nullCells |-> {}]

\* a faulty variant, for comparison: the slice canvas is not drawn again
DrawCell_Stale(l, a, i) == [l EXCEPT !.it = i]

\* the head of one loop iteration: the cell at position i is drawn and toBlob called
DrawCell(l, a, i) ==
    [l EXCEPT !.it = i,
              !.src = SourceRect(l.slicesToExport[i], a.settings, l.sliceWidth,
                                 l.sliceHeight, l.pixelRatio)]

\* loadImage resolves: the master canvas is composed and the first cell drawn;
\* ctx and sliceCtx tell whether getContext returned a context
LoadResolved(ctx, sliceCtx) ==
    /\ pc = "loading"
    /\ IF ~ctx
       THEN /\ DownloadFailed("ctx")
            /\ UNCHANGED <<loc, progressLog>>
       ELSE IF ~sliceCtx
       THEN /\ DownloadFailed("sliceCtx")
            /\ UNCHANGED <<loc, progressLog>>
       ELSE LET l == Locals(args, devicePixelRatio)
            IN  /\ UNCHANGED <<thrown, timers>>
                /\ IF Len(l.slicesToExport) > 0
                   THEN /\ loc' = DrawCell(l, args, 1)
                        /\ pc' = "encoding"
                        /\ UNCHANGED <<progressLog, processingState>>
                   ELSE /\ loc' = l
                        /\ pc' = "archiving"
                        /\ progressLog' = Append(progressLog, 60)
                        /\ processingState' = OnProgress(processingState, <<60>>)
    /\ UNCHANGED <<imageInfo, settings, selectedIndices, hasMoved, drag, pointer, devicePixelRatio,
                   args, zip, saved, ticks, background, previous>>

\* the blob toBlob yields for the cell drawn on the slice canvas
Blob(l, a) ==
    [cell |-> l.slicesToExport[l.it], width |-> l.outputWidth,
     height |-> l.outputHeight, type |-> MimeType(a.settings.format)]

\* the name the blob of the current cell is filed under
CellFilename(l, a) ==
    LET index == l.slicesToExport[l.it]
    IN  Filename(BaseName(a.settings.filePrefix, a.imageInfo.originalName),
                 CellRow(index, a.settings.cols), CellCol(index, a.settings.cols),
                 Ext(a.settings.format))

\* a faulty variant, for comparison: a null blob is filed like any other
FileIfBlob_Always(z, isBlob, filename, blob) == ZipFile(z, filename, blob)

\* if (blob) { ...; zip.file(filename, blob); }
FileIfBlob(z, isBlob, filename, blob) ==
    IF isBlob THEN ZipFile(z, filename, blob) ELSE z

\* toBlob calls back, with a blob or with null: the tail of the iteration, and
\* the head of the next one or the start of generateAsync
EncodeResolved(isBlob) ==
    /\ pc = "encoding"
    /\ isBlob \/ Cardinality(loc.nullCells) < MaxNull
    /\ zip' = FileIfBlob(zip, isBlob, CellFilename(loc, args), Blob(loc, args))
    /\ LET processedCount == loc.processedCount + 1
           length == Len(loc.slicesToExport)
           l == [loc EXCEPT !.processedCount = processedCount,
                            !.nullCells = IF isBlob THEN @
                                          ELSE @ \cup {loc.slicesToExport[loc.it]}]
           emitted == IF loc.it < length
                      THEN <<SliceProgress(processedCount, length)>>
                      ELSE <<SliceProgress(processedCount, length), 60>>
       IN  /\ progressLog' = progressLog \o emitted
           /\ processingState' = OnProgress(processingState, emitted)
           /\ IF loc.it < length
              THEN /\ loc' = DrawCell(l, args, loc.it + 1)
                   /\ pc' = "encoding"
              ELSE /\ loc' = l
                   /\ pc' = "archiving"
    /\ UNCHANGED <<imageInfo, settings, selectedIndices, hasMoved, drag, pointer, timers,
                   devicePixelRatio, args, saved, thrown, ticks, background, previous>>

\* the percent the archive reports at step k of PercentGrid
Percent(k) == Frac(100 * k, PercentGrid)

\* generateAsync reports progress; the archive's percent never decreases
ArchiveProgress(k) ==
    /\ pc = "archiving"
    /\ ticks.count < MaxTicks
    /\ FLeq(ticks.last, Percent(k))
    /\ ticks' = [count |-> ticks.count + 1, last |-> Percent(k)]
    /\ progressLog' = Append(progressLog, ArchiveProgressValue(Percent(k)))
    /\ processingState' = OnProgress(processingState, <<ArchiveProgressValue(Percent(k))>>)
    /\ UNCHANGED <<imageInfo, settings, selectedIndices, hasMoved, drag, pointer, timers,
                   devicePixelRatio, pc, args, loc, zip, saved, thrown, background,
                   previous>>

\* generateAsync rejects
ArchiveRejected ==
    /\ pc = "archiving"
    /\ DownloadFailed("archive")
    /\ UNCHANGED <<imageInfo, settings, selectedIndices, hasMoved, drag, pointer, devicePixelRatio,
                   args, loc, zip, progressLog, saved, ticks, background, previous>>

\* a faulty variant, for comparison: the sink is called a second time
SaveAs_Twice(sink, content, zipName, emitted) ==
    Append(Append(sink, [content |-> content, zipName |-> zipName, emitted |-> emitted]),
           [content |-> content, zipName |-> zipName, emitted |-> emitted])

\* saveAs(content, zipName), called when the job has made emitted onProgress calls
SaveAs(sink, content, zipName, emitted) ==
    Append(sink, [content |-> content, zipName |-> zipName, emitted |-> emitted])

\* generateAsync resolves: progress 100, the archive goes to the save sink, which
\* returns or throws; then the finally of handleDownload
ArchiveResolved(saveThrows) ==
    /\ pc = "archiving"
    /\ progressLog' = Append(progressLog, 100)
    /\ saved' = SaveAs(saved, zip,
                       ZipName(BaseNameForZip(args.settings.filePrefix,
                                              args.imageInfo.originalName)),
                       Len(progressLog) + 1)
    /\ IF saveThrows
       THEN /\ pc' = "failed"
            /\ thrown' = "save"
            /\ processingState' = [processingState EXCEPT !.progress = 100,
                                                          !.error = FailureMessage]
       ELSE /\ pc' = "done"
            /\ thrown' = "none"
            /\ processingState' = [processingState EXCEPT !.progress = 100]
    /\ timers' = timers + 1
    /\ previous' = IF previous = NotRecorded \/ saveThrows THEN previous
                   ELSE [args |-> args, zip |-> zip]
    /\ UNCHANGED <<imageInfo, settings, selectedIndices, hasMoved, drag, pointer, devicePixelRatio,
                   args, loc, zip, ticks, background>>

\* a timer of handleDownload's finally fires; the record of a finished job is
\* dropped, a job in flight goes on
TimerFires ==
    /\ timers > 0
    /\ timers' = timers - 1
    /\ processingState' = IdleProcessing
    /\ IF Running
       THEN UNCHANGED <<pc, args, loc, zip, progressLog, saved, thrown, ticks>>
       ELSE /\ pc' = "idle"
            /\ args' = NoArgs
            /\ loc' = NoLocals
            /\ zip' = <<>>
            /\ progressLog' = <<>>
            /\ saved' = <<>>
            /\ thrown' = "none"
            /\ ticks' = NoTicks
    /\ UNCHANGED <<imageInfo, settings, selectedIndices, hasMoved, drag, pointer, devicePixelRatio,
                   background, previous>>

\* the progress values a background job may emit
BackgroundValues == {50, 60}

\* a job in the background emits progress
BackgroundProgress(p) ==
    /\ background > 0
    /\ processingState' = [processingState EXCEPT !.progress = p]
    /\ UNCHANGED <<imageInfo, settings, selectedIndices, hasMoved, drag, pointer, timers,
                   devicePixelRatio>>
    /\ UNCHANGED jobVars

\* a job in the background ends: it saved its archive, or it threw; then the
\* catch and the finally of its handleDownload
BackgroundEnds(throws) ==
    /\ background > 0
    /\ background' = background - 1
    /\ processingState' = IF throws
                          THEN [processingState EXCEPT !.error = FailureMessage]
                          ELSE [processingState EXCEPT !.progress = 100]
    /\ timers' = timers + 1
    /\ UNCHANGED <<imageInfo, settings, selectedIndices, hasMoved, drag, pointer, devicePixelRatio,
                   pc, args, loc, zip, progressLog, saved, thrown, ticks, previous>>

(***************************************************************************)
(* Spec: the application from its start. One image is uploaded, the grid   *)
(* and the selection are edited, and the download button runs export jobs. *)
(* Here the user acts while no job is in flight and no timer is pending;   *)
(* SpecSession lifts that. A job reads only the values it was called with, *)
(* which later events replace and never mutate.                            *)
(***************************************************************************)
UploadImages == {[width |-> 3, height |-> 2, originalName |-> <<"a", ".", "x">>]}

\* the grids of at most MaxCells cells
Grids == {g \in [rows : 1..MaxCells, cols : 1..MaxCells] : g.rows * g.cols <= MaxCells}

NoJob ==
    /\ pc = "idle"
    /\ args = NoArgs
    /\ loc = NoLocals
    /\ zip = <<>>
    /\ progressLog = <<>>
    /\ saved = <<>>
    /\ thrown = "none"
    /\ ticks = NoTicks
    /\ background = 0
    /\ previous = NotRecorded

Init ==
    /\ imageInfo = NoImage
    /\ settings = DEFAULT_SETTINGS
    /\ selectedIndices = <<>>
    /\ processingState = IdleProcessing
    /\ hasMoved = FALSE
    /\ drag = NoDrag
    /\ pointer = AtRest
    /\ timers = 0
    /\ devicePixelRatio = Whole(1)
    /\ NoJob

JobRuns ==
    \/ LoadRejected
    \/ \E ctx \in BOOLEAN, sliceCtx \in BOOLEAN : LoadResolved(ctx, sliceCtx)
    \/ \E isBlob \in BOOLEAN : EncodeResolved(isBlob)
    \/ \E k \in 0..PercentGrid : ArchiveProgress(k)
    \/ ArchiveRejected
    \/ \E saveThrows \in BOOLEAN : ArchiveResolved(saveThrows)
    \/ TimerFires

Next ==
    \/ pc = "idle" /\ \E info \in UploadImages, g \in Grids : handleImageSelected(info, g)
    \/ pc = "idle" /\ handleReset
    \/ pc = "idle" /\ \E index \in 0..(MaxCells - 1) : handleGridClick(index)
    \/ pc = "idle" /\ handleSelectAll
    \/ pc = "idle" /\ handleSelectNone
    \/ pc = "idle" /\ \E r \in 1..MaxCells : /\ r * settings.cols <= MaxCells
                                             /\ handleInputChange("rows", r)
    \/ pc = "idle" /\ \E c \in 1..MaxCells : /\ settings.rows * c <= MaxCells
                                             /\ handleInputChange("cols", c)
    \/ pc = "idle" /\ \E f \in Formats : handleInputChange("format", f)
    \/ pc = "idle" /\ handleDownload
    \/ JobRuns

Spec == Init /\ [][Next]_vars

(***************************************************************************)
(* Direct calls: processAndDownload is called on arguments drawn from      *)
(* bounded sets, as handleDownload calls it, and awaits loadImage.         *)
(***************************************************************************)
Called(images, settingsSet, selections, ratios) ==
    /\ imageInfo \in images
    /\ settings \in settingsSet
    /\ selectedIndices \in selections
    /\ devicePixelRatio \in ratios
    /\ processingState = [isProcessing |-> TRUE, progress |-> 0, error |-> NoError]
    /\ hasMoved = FALSE
    /\ drag = NoDrag
    /\ pointer = AtRest
    /\ timers = 0
    /\ pc = "loading"
    /\ args = [imageInfo |-> imageInfo, settings |-> settings,
               selectedIndices |-> selectedIndices]
    /\ loc = NoLocals
    /\ zip = <<>>
    /\ progressLog = <<>>
    /\ saved = <<>>
    /\ thrown = "none"
    /\ ticks = NoTicks
    /\ background = 0
    /\ previous = NotRecorded

\* the strings over the characters of alphabet, of length at most n
RECURSIVE Strings(_, _)
Strings(alphabet, n) ==
    IF n = 0 THEN {<<>>}
    ELSE LET shorter == Strings(alphabet, n - 1)
         IN  shorter \cup {Append(t, ch) : t \in shorter, ch \in alphabet}

(***************************************************************************)
(* SpecName: the names of the tiles and of the archive, for every prefix,  *)
(* original file name and format; every encode yields a blob.              *)
(***************************************************************************)
Prefixes == {<<>>, <<"p">>}
NamedImages ==
    {[width |-> 3, height |-> 2, originalName |-> n] :
        n \in Strings({"a", "."}, MaxNameLen)}
\* the grids the user sets up, and one of a single column and one of a single row
\* whose row and column numbers have two digits
NamedGrids == Grids \cup {[rows |-> 12, cols |-> 1], [rows |-> 1, cols |-> 12]}
NamedSettings ==
    {Spread(DEFAULT_SETTINGS, [rows |-> g.rows, cols |-> g.cols, format |-> f,
                               filePrefix |-> p]) :
        g \in NamedGrids, f \in Formats, p \in Prefixes}
NamedSelections == {<<>>} \cup {<<i>> : i \in 0..(MaxCells - 1)} \cup {<<9>>, <<10>>}

InitName == Called(NamedImages, NamedSettings, NamedSelections, {Whole(1)})

NextName ==
    \/ LoadResolved(TRUE, TRUE)
    \/ EncodeResolved(TRUE)
    \/ ArchiveResolved(FALSE)
    \/ TimerFires

SpecName == InitName /\ [][NextName]_vars

(***************************************************************************)
(* SpecGeom: the sizes processAndDownload computes up to its first cell,   *)
(* for every image size, crop mode, grid, padding and device pixel ratio.  *)
(***************************************************************************)
SizedImages ==
    {[width |-> w, height |-> h, originalName |-> <<"a", ".", "x">>] :
        w \in 1..MaxSide, h \in 1..MaxSide}
SizedSettings ==
    {Spread(DEFAULT_SETTINGS, [rows |-> g.rows, cols |-> g.cols, cropMode |-> m,
                               paddingTop |-> pt, paddingRight |-> pr,
                               paddingBottom |-> pb, paddingLeft |-> pl]) :
        g \in Grids, m \in CropModes,
        pt \in 0..MaxPad, pr \in 0..MaxPad, pb \in 0..MaxPad, pl \in 0..MaxPad}
DeviceRatios == {Whole(0), Frac(1, 2), Whole(1), Frac(3, 2), Whole(2), Whole(3)}

InitGeom == Called(SizedImages, SizedSettings, {<<>>}, DeviceRatios)

NextGeom == \E ctx \in BOOLEAN, sliceCtx \in BOOLEAN : LoadResolved(ctx, sliceCtx)

SpecGeom == InitGeom /\ [][NextGeom]_vars

(***************************************************************************)
(* SpecProgress: the progress of whole jobs, failures included, on the     *)
(* grids of Spec and on a grid of 10 x 10 cells, which the rows and cols   *)
(* inputs (1 to 20 each) allow.                                            *)
(***************************************************************************)
ProgressGrids == Grids \cup {[rows |-> 10, cols |-> 10]}
ProgressSettings ==
    {Spread(DEFAULT_SETTINGS, [rows |-> g.rows, cols |-> g.cols]) : g \in ProgressGrids}
ProgressSelections == {<<>>, <<0>>, <<1, 0>>}

InitProgress ==
    Called({[width |-> 3, height |-> 2, originalName |-> <<"a", ".", "x">>]},
           ProgressSettings, ProgressSelections, {Whole(1)})

NextProgress ==
    \/ LoadRejected
    \/ \E ctx \in BOOLEAN, sliceCtx \in BOOLEAN : LoadResolved(ctx, sliceCtx)
    \/ \E isBlob \in BOOLEAN : EncodeResolved(isBlob)
    \/ \E k \in 0..PercentGrid : ArchiveProgress(k)
    \/ ArchiveRejected
    \/ \E saveThrows \in BOOLEAN : ArchiveResolved(saveThrows)
    \/ TimerFires

SpecProgress == InitProgress /\ [][NextProgress]_vars

(***************************************************************************)
(* SpecSession: the user resets, uploads and downloads at any moment, also *)
(* while a job is in flight or its timer pending; the grid is 1 x 1.       *)
(***************************************************************************)
NextSession ==
    \/ \E info \in UploadImages : handleImageSelected(info, [rows |-> 1, cols |-> 1])
    \/ handleReset
    \/ background + timers < MaxJobs /\ handleDownload
    \/ LoadRejected
    \/ \E ctx \in BOOLEAN, sliceCtx \in BOOLEAN : LoadResolved(ctx, sliceCtx)
    \/ \E isBlob \in BOOLEAN : EncodeResolved(isBlob)
    \/ \E k \in 0..PercentGrid : ArchiveProgress(k)
    \/ ArchiveRejected
    \/ \E saveThrows \in BOOLEAN : ArchiveResolved(saveThrows)
    \/ TimerFires
    \/ \E p \in BackgroundValues : BackgroundProgress(p)
    \/ \E throws \in BOOLEAN : BackgroundEnds(throws)

SpecSession == Init /\ [][NextSession]_vars

\* FairSession: SpecSession in which every timer set by setTimeout fires
FairSession == SpecSession /\ WF_vars(TimerFires)

(***************************************************************************)
(* SpecPair: one image session in which the selection is built by clicks   *)
(* and jobs run one after the other, every step of theirs succeeding; the  *)
(* history variable keeps the last completed job.                          *)
(***************************************************************************)
PairGrids == {[rows |-> 1, cols |-> 2], [rows |-> 2, cols |-> 2]}

InitPair ==
    /\ imageInfo \in UploadImages
    /\ settings \in {Spread(DEFAULT_SETTINGS, g) : g \in PairGrids}
    /\ selectedIndices = <<>>
    /\ processingState = IdleProcessing
    /\ hasMoved = FALSE
    /\ drag = NoDrag
    /\ pointer = AtRest
    /\ timers = 0
    /\ devicePixelRatio = Whole(1)
    /\ pc = "idle"
    /\ args = NoArgs
    /\ loc = NoLocals
    /\ zip = <<>>
    /\ progressLog = <<>>
    /\ saved = <<>>
    /\ thrown = "none"
    /\ ticks = NoTicks
    /\ background = 0
    /\ previous = NoPrevious

NextPair ==
    \/ pc = "idle" /\ \E index \in 0..(MaxCells - 1) : handleGridClick(index)
    \/ pc = "idle" /\ handleSelectAll
    \/ pc = "idle" /\ handleSelectNone
    \/ pc = "idle" /\ handleDownload
    \/ LoadResolved(TRUE, TRUE)
    \/ EncodeResolved(TRUE)
    \/ ArchiveResolved(FALSE)
    \/ TimerFires

SpecPair == InitPair /\ [][NextPair]_vars

(***************************************************************************)
(* SpecScenarioA: processAndDownload called on a 1200 x 900 image with the *)
(* default settings (3 x 3, original crop, scale 1, offset 0, png, no      *)
(* padding) and an empty selection, for every device pixel ratio.          *)
(***************************************************************************)
ScenarioImages ==
    {[width |-> 1200, height |-> 900, originalName |-> n] :
        n \in {<<"a", ".", "x">>, <<"b", "c", ".", "x">>}}

\* the device pixel ratios of SpecGeom and one whose product with 400 is not whole
ScenarioRatios == DeviceRatios \cup {Frac(4, 3)}

InitScenarioA == Called(ScenarioImages, {DEFAULT_SETTINGS}, {<<>>}, ScenarioRatios)

NextScenarioA ==
    \/ LoadRejected
    \/ \E ctx \in BOOLEAN, sliceCtx \in BOOLEAN : LoadResolved(ctx, sliceCtx)
    \/ \E isBlob \in BOOLEAN : EncodeResolved(isBlob)
    \/ \E k \in 0..PercentGrid : ArchiveProgress(k)
    \/ ArchiveRejected
    \/ \E saveThrows \in BOOLEAN : ArchiveResolved(saveThrows)
    \/ TimerFires

SpecScenarioA == InitScenarioA /\ [][NextScenarioA]_vars

(***************************************************************************)
(* SpecTransform: the image is zoomed by the wheel, the step buttons and   *)
(* the sliders, the transforms are reset, the crop mode is switched and    *)
(* images are loaded again; no job runs.                                   *)
(***************************************************************************)
NextTransform ==
    \/ \E info \in UploadImages : handleImageSelected(info, [rows |-> 3, cols |-> 3])
    \/ handleReset
    \/ \E zoomIn \in BOOLEAN : handleWheel(zoomIn)
    \/ \E axis \in {"X", "Y"}, amount \in {Frac(-1, 100), Frac(1, 100)} :
           handleScaleStep(axis, amount)
    \/ \E field \in {"scaleX", "scaleY"}, value \in SliderValues :
           handleInputChange(field, value)
    \/ resetTransforms
    \/ \E mode \in CropModes : handleInputChange("cropMode", mode)

SpecTransform == Init /\ [][NextTransform]_vars

(***************************************************************************)
(* SpecDraw: the master canvas processAndDownload composes, for every      *)
(* image size, crop mode, scale, pan offset and device pixel ratio.        *)
(***************************************************************************)
DrawScales == {Frac(1, 2), Whole(1), Frac(3, 2), Whole(3)}
DrawOffsets == {Frac(-1, 2), Whole(0), Frac(1, 4)}
DrawSettings ==
    {Spread(DEFAULT_SETTINGS, [rows |-> 1, cols |-> 1, cropMode |-> m,
                               scaleX |-> sx, scaleY |-> sy,
                               offsetX |-> ox, offsetY |-> oy]) :
        m \in CropModes, sx \in DrawScales, sy \in DrawScales,
        ox \in DrawOffsets, oy \in DrawOffsets}

InitDraw == Called(SizedImages, DrawSettings, {<<>>}, DeviceRatios)

NextDraw == \E ctx \in BOOLEAN, sliceCtx \in BOOLEAN : LoadResolved(ctx, sliceCtx)

SpecDraw == InitDraw /\ [][NextDraw]_vars

(***************************************************************************)
(* SpecMouse: an image is loaded on a grid of one row and two columns and  *)
(* the mouse is pressed, moved and released over GridPreview; no job runs. *)
(***************************************************************************)
NextMouse ==
    \/ \E info \in UploadImages : handleImageSelected(info, [rows |-> 1, cols |-> 2])
    \/ handleReset
    \/ \E button \in Buttons : MouseDown(button)
    \/ \E p \in Positions : MouseMove(p)
    \/ MouseUp

SpecMouse == Init /\ [][NextMouse]_vars

(***************************************************************************)
(* The claims                                                              *)
(***************************************************************************)
\* the job has passed loadImage and its locals are set
Sliced == loc # NoLocals

IsAscending(seq) == \A i, j \in DOMAIN seq : i < j => seq[i] < seq[j]

\* the names of the entries of an archive, in order
Names(content) == [i \in DOMAIN content |-> content[i].name]

\* the cells of the entries of an archive, in order
Cells(content) == [i \in DOMAIN content |-> content[i].blob.cell]

\* C1 (as claimed): a job called with a non-empty selection slices, names and
\* files its cells in ascending index order, whatever the order of the clicks
\* that built the selection.
C1_AscendingOrder ==
    (Sliced /\ Len(args.selectedIndices) > 0) =>
        /\ IsAscending(loc.slicesToExport)
        /\ IsAscending(Cells(zip))

\* C2 (as claimed): with an empty selection the export list is 0..rows*cols-1,
\* never empty, and a selection that holds every index 0..rows*cols-1 gives the
\* same ordered list.
C2_EmptyEqualsFull ==
    Sliced =>
        LET total == args.settings.rows * args.settings.cols
            all == [i \in 1..total |-> i - 1]
        IN  /\ args.selectedIndices = <<>> =>
                  loc.slicesToExport = all /\ Len(loc.slicesToExport) > 0
            /\ Range(args.selectedIndices) = 0..(total - 1) =>
                  loc.slicesToExport = all

\* the decimal numerals of 1..13
Numerals ==
    << <<"1">>, <<"2">>, <<"3">>, <<"4">>, <<"5">>, <<"6">>, <<"7">>, <<"8">>, <<"9">>,
       <<"1", "0">>, <<"1", "1">>, <<"1", "2">>, <<"1", "3">> >>

ExtensionOf == [png |-> "png", jpg |-> "jpg", webp |-> "webp"]

\* C3: every entry of the archive, filed for cell i, is named
\* base_R_C.ext where R - 1 = floor(i / cols), C - 1 = i mod cols and ext is jpg,
\* png or webp as the format is.
C3_TileNames ==
    \A e \in Range(zip) :
        \E r \in 0..12, c \in 0..12 :
            /\ c < args.settings.cols
            /\ r * args.settings.cols + c = e.blob.cell
            /\ e.name = BaseName(args.settings.filePrefix, args.imageInfo.originalName)
                        \o <<"_">> \o Numerals[r + 1] \o <<"_">> \o Numerals[c + 1]
                        \o <<".", ExtensionOf[args.settings.format]>>

\* C3 witness: a finished jpg job on a single column filed the cell of index 10
C3_Witness ==
    /\ pc = "done"
    /\ args.settings.format = "jpg"
    /\ args.settings.cols = 1
    /\ \E e \in Range(zip) : e.blob.cell = 10

\* the job of scenario C: selection {0, 3} on a 2x2 grid, every encode a blob
ScenarioC ==
    /\ pc = "done"
    /\ args.settings.rows = 2
    /\ args.settings.cols = 2
    /\ Range(args.selectedIndices) = {0, 3}
    /\ loc.nullCells = {}

\* the tile name of scenario C with the given row and column numerals
TileC(r, c) ==
    BaseName(args.settings.filePrefix, args.imageInfo.originalName)
        \o <<"_", r, "_", c, ".", Ext(args.settings.format)>>

Stripped(name) ==
    LET dots == {i \in DOMAIN name : name[i] = "."}
    IN  IF dots = {} THEN name
        ELSE SubSeq(name, 1, (CHOOSE i \in dots : \A j \in dots : j <= i) - 1)

\* the base name as claimed: the prefix, else the stripped name, else "sliced"
ClaimedBase(filePrefix, originalName) ==
    IF filePrefix # <<>> THEN filePrefix
    ELSE IF Stripped(originalName) # <<>> THEN Stripped(originalName)
    ELSE <<"sliced">>

\* C5 (as claimed): every tile and the archive carry the base name that is the
\* prefix when not empty, else the original file name without its extension, else
\* "sliced"; the archive is base_grid.zip.
C5_BaseName ==
    LET base == ClaimedBase(args.settings.filePrefix, args.imageInfo.originalName)
    IN  /\ \A e \in Range(zip) :
               e.name = Filename(base, CellRow(e.blob.cell, args.settings.cols),
                                 CellCol(e.blob.cell, args.settings.cols),
                                 Ext(args.settings.format))
        /\ \A call \in Range(saved) : call.zipName = base \o <<"_grid.zip">>

\* C6 (as claimed): the values a job passes to onProgress are integers in
\* 0..100 and never decrease; the value emitted after cell number i of n is in
\* 0..50 and is round(50 * i / n), exactly 50 after the last cell; the values
\* emitted after the slicing are in 60..100.
C6_Progress ==
    /\ \A i \in DOMAIN progressLog : progressLog[i] \in 0..100
    /\ \A i, j \in DOMAIN progressLog : i < j => progressLog[i] <= progressLog[j]
    /\ Sliced =>
          LET n == Len(loc.slicesToExport)
          IN  /\ \A i \in 1..MathMin(n, Len(progressLog)) :
                     /\ progressLog[i] \in 0..50
                     /\ progressLog[i] = MathRound(Frac(50 * i, n))
              /\ Len(progressLog) >= n => progressLog[n] = 50
              /\ \A i \in (n + 1)..Len(progressLog) : progressLog[i] \in 60..100

\* the archive of the job in flight is complete and an earlier job was called
\* with the same image, the same settings and a selection of the same indices
SameJobAgain ==
    /\ pc = "archiving"
    /\ previous \notin {NotRecorded, NoPrevious}
    /\ previous.args.imageInfo = args.imageInfo
    /\ previous.args.settings = args.settings
    /\ Range(previous.args.selectedIndices) = Range(args.selectedIndices)

\* C11 (as claimed): two jobs with the same settings, the same image and
\* selections of the same indices file identically named entries in the same
\* order, whatever clicks built each selection.
C11_Deterministic == SameJobAgain => Names(zip) = Names(previous.zip)

\* C12 (as claimed): every index of the selection is a cell of the current
\* grid: 0 <= index < rows * cols.
C12_SelectionInRange ==
    \A index \in Range(selectedIndices) :
        0 <= index /\ index < settings.rows * settings.cols

\* the calls of processAndDownload that have started and neither completed nor
\* failed
ActiveJobs == (IF Running THEN 1 ELSE 0) + background

\* C13 (as claimed): at most one export job is active at any time.
C13_SingleJob == ActiveJobs <= 1

\* C14: for every index of the grid, row = floor(index / cols) and
\* col = index mod cols satisfy 0 <= row < rows, 0 <= col < cols and
\* row * cols + col = index; every entry filed for a cell of the grid carries the
\* name of that row and column, distinct cells have distinct names, and a job
\* all of whose cells are in the grid and encoded files one entry per cell.
C14_RoundTrip ==
    Sliced =>
        LET rows == args.settings.rows
            cols == args.settings.cols
            grid == 0..(rows * cols - 1)
            base == BaseName(args.settings.filePrefix, args.imageInfo.originalName)
            NameOf(i) == Filename(base, i \div cols, i % cols, Ext(args.settings.format))
        IN  /\ \A i \in grid :
                   /\ 0 <= i \div cols /\ i \div cols < rows
                   /\ 0 <= i % cols /\ i % cols < cols
                   /\ (i \div cols) * cols + (i % cols) = i
            /\ \A i, j \in grid : i # j => NameOf(i) # NameOf(j)
            /\ \A e \in Range(zip) : e.blob.cell \in grid => e.name = NameOf(e.blob.cell)
            /\ (/\ pc \in {"archiving", "done"}
                /\ loc.nullCells = {}
                /\ Range(loc.slicesToExport) \subseteq grid)
                  => Len(zip) = Len(loc.slicesToExport)

\* C14 witness: a finished job on a 2 x 2 grid filed cell 1 (row 0, column 1) and
\* cell 2 (row 1, column 0)
C14_Witness ==
    /\ pc = "done"
    /\ args.settings.rows = 2
    /\ args.settings.cols = 2
    /\ Range(Cells(zip)) = {1, 2}
    /\ Len(zip) = 2

\* the job of scenario A, every encode of which yields a blob, has sliced its cells
ScenarioA ==
    /\ pc \in {"archiving", "done"}
    /\ args.settings.rows = 3 /\ args.settings.cols = 3
    /\ args.settings.cropMode = "original"
    /\ args.settings.scaleX = Whole(1) /\ args.settings.scaleY = Whole(1)
    /\ args.settings.offsetX = Whole(0) /\ args.settings.offsetY = Whole(0)
    /\ args.settings.format = "png"
    /\ args.settings.paddingTop = 0 /\ args.settings.paddingRight = 0
    /\ args.settings.paddingBottom = 0 /\ args.settings.paddingLeft = 0
    /\ args.settings.filePrefix = <<>>
    /\ args.selectedIndices = <<>>
    /\ args.imageInfo.width = 1200 /\ args.imageInfo.height = 900
    /\ loc.nullCells = {}

\* the resolution scale: the device pixel ratio, 1 when that is 0, and at most 2
ResolutionScale ==
    IF devicePixelRatio = Whole(0) THEN Whole(1)
    ELSE IF FLeq(Whole(2), devicePixelRatio) THEN Whole(2) ELSE devicePixelRatio

\* C15: scenario A files 9 tiles named name_1_1.png .. name_3_3.png, one per
\* (row, col) in row-major order, each of 400 x 300 times the resolution scale in
\* whole pixels, and saves one archive, named name_grid.zip, that holds them.
C15_ScenarioA ==
    ScenarioA =>
        LET name == Stripped(args.imageInfo.originalName)
            wide == FMul(Whole(400), ResolutionScale)
            high == FMul(Whole(300), ResolutionScale)
        IN  /\ Names(zip) = [k \in 1..9 |->
                                name \o <<"_">> \o Numerals[((k - 1) \div 3) + 1]
                                     \o <<"_">> \o Numerals[((k - 1) % 3) + 1]
                                     \o <<".", "png">>]
            /\ \A e \in Range(zip) :
                   /\ FLeq(Whole(e.blob.width), wide) /\ FLess(wide, Whole(e.blob.width + 1))
                   /\ FLeq(Whole(e.blob.height), high) /\ FLess(high, Whole(e.blob.height + 1))
                   /\ e.blob.type = "image/png"
            /\ pc = "done" =>
                   /\ Len(saved) = 1
                   /\ saved[1].content = zip
                   /\ saved[1].zipName = name \o <<"_grid.zip">>

\* C15 witness: scenario A has saved its archive of 9 tiles at resolution scale 2
C15_Witness ==
    /\ ScenarioA
    /\ pc = "done"
    /\ Len(saved) = 1
    /\ Len(saved[1].content) = 9
    /\ ResolutionScale = Whole(2)
    /\ zip[9].blob.width = 800

\* the cells at positions from..to of the export list
Exported(from, to) == {loc.slicesToExport[k] : k \in from..to}

\* C16: while the slice canvas holds the cell at position j of the export list,
\* every cell before it has been drawn, encoded, filed (unless its blob was null)
\* and reported, and no cell after it has been touched; the archive is generated
\* only after the progress of the last cell.
C16_Sequential ==
    Sliced =>
        LET n == Len(loc.slicesToExport)
        IN  /\ pc = "encoding" =>
                   /\ loc.it \in 1..n
                   /\ loc.processedCount = loc.it - 1
                   /\ Len(progressLog) = loc.it - 1
                   /\ Range(Cells(zip)) = Exported(1, loc.it - 1) \ loc.nullCells
                   /\ loc.nullCells \subseteq Exported(1, loc.it - 1)
                   /\ loc.src = SourceRect(loc.slicesToExport[loc.it], args.settings,
                                           loc.sliceWidth, loc.sliceHeight, loc.pixelRatio)
                   /\ ticks = NoTicks /\ saved = <<>>
            /\ pc \in {"archiving", "done"} =>
                   /\ loc.processedCount = n
                   /\ Len(progressLog) >= n + 1
                   /\ progressLog[n + 1] = 60
                   /\ Range(Cells(zip)) = Exported(1, n) \ loc.nullCells
            /\ (ticks # NoTicks \/ saved # <<>>) => Len(progressLog) >= n + 1

\* C16 witness: the second cell is on the slice canvas, the first one is filed and
\* its progress reported
C16_Witness ==
    /\ pc = "encoding"
    /\ loc.it = 2
    /\ Cells(zip) = <<loc.slicesToExport[1]>>
    /\ Len(progressLog) = 1
    /\ loc.slicesToExport[1] # loc.slicesToExport[2]

\* C17 (as claimed): after every job, ended by success or by failure (the timer
\* of its finally is pending), the processing state is eventually reset to
\* isProcessing false, progress 0, error null; the error message is only ever
\* shown with isProcessing still true, until that reset.
C17_ResetAfterJob ==
    /\ [](processingState.error # NoError => processingState.isProcessing)
    /\ (timers > 0) ~> (processingState = IdleProcessing)

\* C18: scaleX and scaleY lie in [0.5, 3.0] in every state of the interface,
\* whatever wheel events, step button presses, slider changes, transform resets,
\* crop-mode changes and image loads came before.
C18_ScaleRange ==
    /\ FLeq(Frac(1, 2), settings.scaleX) /\ FLeq(settings.scaleX, Whole(3))
    /\ FLeq(Frac(1, 2), settings.scaleY) /\ FLeq(settings.scaleY, Whole(3))

\* C18 witness: the scales differ and one of them sits on the upper limit, as
\* after a wheel step from 2.99 and 2.94
C18_Witness ==
    /\ imageInfo # NoImage
    /\ settings.cropMode = "square"
    /\ settings.scaleX = Whole(3)
    /\ settings.scaleY = Frac(299, 100)

\* C19: with r the resolution scale and canvas = viewport * r, the image is drawn
\* on the master canvas in a rectangle of width naturalWidth * scaleX * r and
\* height naturalHeight * scaleY * r whose top-left corner is
\* ((canvasWidth - drawWidth) / 2 + offsetX * canvasWidth,
\*  (canvasHeight - drawHeight) / 2 + offsetY * canvasHeight); with scale 1,
\* offset 0 and original crop that is (0, 0, canvasWidth, canvasHeight), and with
\* scale 1 and offset 0 in square crop the image overhangs the square by the
\* same amount on both sides of each axis.
C19_MasterDraw ==
    Sliced =>
        LET s == args.settings
            w == Whole(args.imageInfo.width)
            h == Whole(args.imageInfo.height)
            r == ResolutionScale
            side == IF FLeq(w, h) THEN w ELSE h
            canvasWidth == FMul(IF s.cropMode = "square" THEN side ELSE w, r)
            canvasHeight == FMul(IF s.cropMode = "square" THEN side ELSE h, r)
            m == loc.master
            plain == /\ s.scaleX = Whole(1) /\ s.scaleY = Whole(1)
                     /\ s.offsetX = Whole(0) /\ s.offsetY = Whole(0)
        IN  /\ m.canvasWidth = canvasWidth
            /\ m.canvasHeight = canvasHeight
            /\ m.drawWidth = FMul(FMul(w, s.scaleX), r)
            /\ m.drawHeight = FMul(FMul(h, s.scaleY), r)
            /\ m.finalX = FAdd(FDiv(FSub(canvasWidth, m.drawWidth), Whole(2)),
                               FMul(s.offsetX, canvasWidth))
            /\ m.finalY = FAdd(FDiv(FSub(canvasHeight, m.drawHeight), Whole(2)),
                               FMul(s.offsetY, canvasHeight))
            /\ (plain /\ s.cropMode = "original") =>
                   /\ m.finalX = Whole(0) /\ m.finalY = Whole(0)
                   /\ m.drawWidth = canvasWidth /\ m.drawHeight = canvasHeight
            /\ (plain /\ s.cropMode = "square") =>
                   /\ FSub(Whole(0), m.finalX)
                         = FSub(FAdd(m.finalX, m.drawWidth), canvasWidth)
                   /\ FSub(Whole(0), m.finalY)
                         = FSub(FAdd(m.finalY, m.drawHeight), canvasHeight)
                   /\ FLeq(m.finalX, Whole(0)) /\ FLeq(m.finalY, Whole(0))
                   /\ m.finalX = Whole(0) \/ m.finalY = Whole(0)

\* C19 witness: a 3 x 2 image in square crop, scale 1 and offset 0, at resolution
\* scale 2: the 4 x 4 canvas is overhung by 1 on the left and on the right
C19_Witness ==
    /\ Sliced
    /\ args.settings.cropMode = "square"
    /\ args.imageInfo.width = 3 /\ args.imageInfo.height = 2
    /\ args.settings.scaleX = Whole(1) /\ args.settings.scaleY = Whole(1)
    /\ args.settings.offsetX = Whole(0) /\ args.settings.offsetY = Whole(0)
    /\ loc.master.canvasWidth = Whole(4)
    /\ loc.master.finalX = Whole(-1)
    /\ loc.master.drawWidth = Whole(6)

\* the padding of the job is not negative and, on each axis, sums to less than
\* the size of a cell
PaddingFits ==
    LET s == args.settings
    IN  /\ s.paddingLeft >= 0 /\ s.paddingRight >= 0
        /\ s.paddingTop >= 0 /\ s.paddingBottom >= 0
        /\ FLess(Whole(s.paddingLeft + s.paddingRight), loc.sliceWidth)
        /\ FLess(Whole(s.paddingTop + s.paddingBottom), loc.sliceHeight)

\* the source rectangle of the cell on the slice canvas lies on the master canvas
SourceInside ==
    /\ FLeq(Whole(0), loc.src.srcX)
    /\ FLeq(FAdd(loc.src.srcX, loc.src.srcWidth), loc.master.canvasWidth)
    /\ FLeq(Whole(0), loc.src.srcY)
    /\ FLeq(FAdd(loc.src.srcY, loc.src.srcHeight), loc.master.canvasHeight)

\* C20 (as claimed): for every index the slicing loop processes, whatever
\* selection the interface passed, with padding that fits the cell, the source
\* rectangle lies inside the master canvas.
C20_SourceInside == (Sliced /\ pc = "encoding" /\ PaddingFits) => SourceInside

\* C21: a job that succeeded called the save sink exactly once, with the archive
\* of every cell of its export list, after the generation of the archive and
\* after it emitted progress 100, and called onProgress no more after that; a
\* job still in flight has not called the sink.
C21_SaveOnce ==
    /\ pc = "done" =>
           /\ Len(saved) = 1
           /\ saved[1].content = zip
           /\ loc.processedCount = Len(loc.slicesToExport)
           /\ saved[1].emitted = Len(loc.slicesToExport) + 1 + ticks.count + 1
           /\ progressLog[saved[1].emitted] = 100
           /\ Len(progressLog) = saved[1].emitted
    /\ pc \in {"loading", "encoding", "archiving"} => saved = <<>>
    /\ Len(saved) <= 1

\* C21 witness: a job of two cells succeeded after the archive reported progress
C21_Witness ==
    /\ pc = "done"
    /\ Len(loc.slicesToExport) = 2
    /\ ticks.count = 1
    /\ Len(saved) = 1
    /\ saved[1].emitted = 5
    /\ progressLog[5] = 100

\* a button is released over cell index of the grid
ReleasedOn(index) ==
    /\ pointer.button # NoButton
    /\ pointer'.button = NoButton
    /\ CellAt(pointer.at) = index

\* C22 (as claimed): a mouse-up on cell i toggles the membership of i in the
\* selection and leaves every other index as it was when the pointer has not
\* moved more than 2 px on either axis since the last left-button mouse-down;
\* when it has (a drag), the mouse-up leaves the selection unchanged; and the
\* next left-button mouse-down clears the drag-moved flag.
C22_ClickOrDrag ==
    [][/\ \A i \in {0, 1} :
              ReleasedOn(i) =>
                  IF pointer.dragged
                  THEN selectedIndices' = selectedIndices
                  ELSE /\ SetHas(selectedIndices', i) <=> ~SetHas(selectedIndices, i)
                       /\ \A j \in {0, 1} \ {i} :
                              SetHas(selectedIndices', j) <=> SetHas(selectedIndices, j)
       /\ (pointer.button = NoButton /\ pointer'.button = 0) => hasMoved' = FALSE
      ]_vars

\* the steps of a job, the timer of handleDownload apart
JobSteps ==
    \/ LoadRejected
    \/ \E ctx \in BOOLEAN, sliceCtx \in BOOLEAN : LoadResolved(ctx, sliceCtx)
    \/ \E isBlob \in BOOLEAN : EncodeResolved(isBlob)
    \/ \E k \in 0..PercentGrid : ArchiveProgress(k)
    \/ ArchiveRejected
    \/ \E saveThrows \in BOOLEAN : ArchiveResolved(saveThrows)

\* C7: a job in which the image decode, a canvas context or the archive
\* generation threw has re-thrown to its caller, has run no step after the one
\* that threw (nothing filed, no progress emitted, no save call since), runs no
\* further step, and never called the save sink.
C7_Abort ==
    /\ pc = "failed" <=> thrown # "none"
    /\ pc = "failed" =>
        /\ thrown \in {"load", "ctx", "sliceCtx", "archive", "save"}
        /\ processingState.error = FailureMessage
        /\ thrown \in {"load", "ctx", "sliceCtx"} =>
              zip = <<>> /\ progressLog = <<>> /\ saved = <<>> /\ ~Sliced
        /\ thrown = "archive" =>
              /\ saved = <<>>
              /\ Len(progressLog) = Len(loc.slicesToExport) + 1 + ticks.count
        /\ ~ENABLED JobSteps

\* C7 witness: archive generation threw after tiles had been filed
C7_Witness == pc = "failed" /\ thrown = "archive" /\ Len(zip) > 0

\* the cells the loop has finished with
Processed == {loc.slicesToExport[k] : k \in 1..loc.processedCount}

\* C8: a cell whose encode yields null gets no archive entry, counts for the
\* progress like any other, does not fail the job and does not stop the loop; the
\* archive holds exactly one entry per cell whose encode yielded a blob, and that
\* archive is what a completed job saves.
C8_NullSkipped ==
    Sliced =>
        /\ loc.nullCells \subseteq Processed
        /\ Range(Cells(zip)) = Processed \ loc.nullCells
        /\ Len(zip) = Cardinality(Processed \ loc.nullCells)
        /\ pc = "encoding" =>
              /\ Len(progressLog) = loc.processedCount
              /\ loc.it = loc.processedCount + 1
        /\ pc # "encoding" => loc.processedCount = Len(loc.slicesToExport)
        /\ pc = "failed" => thrown \in {"archive", "save"}
        /\ pc = "done" => Len(saved) = 1 /\ saved[1].content = zip

\* C8 witness: a job completed although the encode of its first cell yielded null
C8_Witness ==
    /\ pc = "done"
    /\ Len(loc.slicesToExport) >= 2
    /\ loc.nullCells = {loc.slicesToExport[1]}
    /\ Len(zip) = Len(loc.slicesToExport) - 1

\* out is max(1, floor((side / cells - before - after) * ratio)), and 1 when
\* side / cells - before - after <= 0
ClampedSize(side, cells, before, after, ratio, out) ==
    LET num == (side - (before + after) * cells) * ratio[1]
        den == cells * ratio[2]
    IN  /\ out >= 1
        /\ side - (before + after) * cells <= 0 => out = 1
        /\ num < den => out = 1
        /\ num >= den => out * den <= num /\ num < (out + 1) * den

\* C9: the output width is max(1, floor((sliceWidth - paddingLeft - paddingRight)
\* * pixelRatio)), exactly 1 when the padding leaves nothing of the cell, and the
\* output height likewise with the top and bottom padding.
C9_OutputSize ==
    Sliced =>
        /\ ClampedSize(loc.viewport.width, args.settings.cols,
                       args.settings.paddingLeft, args.settings.paddingRight,
                       loc.pixelRatio, loc.outputWidth)
        /\ ClampedSize(loc.viewport.height, args.settings.rows,
                       args.settings.paddingTop, args.settings.paddingBottom,
                       loc.pixelRatio, loc.outputHeight)

\* C9 witness: the left and right padding exceed the cell width, the top and
\* bottom padding leave more than one pixel row
C9_Witness ==
    /\ Sliced
    /\ loc.viewport.width
         < (args.settings.paddingLeft + args.settings.paddingRight) * args.settings.cols
    /\ loc.outputWidth = 1
    /\ loc.outputHeight > 1

\* C10: in square mode the viewport is the square of the smaller natural side, in
\* original mode the natural size.
C10_Viewport ==
    Sliced =>
        LET w == args.imageInfo.width
            h == args.imageInfo.height
        IN  /\ args.settings.cropMode = "square" =>
                  /\ loc.viewport.width = loc.viewport.height
                  /\ loc.viewport.width <= w /\ loc.viewport.width <= h
                  /\ loc.viewport.width \in {w, h}
            /\ args.settings.cropMode = "original" =>
                  loc.viewport = [width |-> w, height |-> h]

\* C10 witness: a square crop of an image wider than high
C10_Witness ==
    /\ Sliced
    /\ args.settings.cropMode = "square"
    /\ args.imageInfo.width > args.imageInfo.height
    /\ loc.viewport = [width |-> args.imageInfo.height, height |-> args.imageInfo.height]

====
